---- MODULE Spec2Model ----
(***************************************************************************)
(* Production-planning front end: the LPSolver component (form submission, *)
(* request building, the fetch round trip, reset) and the aggregations of  *)
(* the two ProductionResults components.                                   *)
(*                                                                         *)
(* Numbers with a fractional part are scaled by ten (capacity 6.5 is 65).  *)
(***************************************************************************)
EXTENDS Integers, Sequences, FiniteSets, TLC

VARIABLES
    machines,        \* form value `machines`: sequence of [name, capacity]
    demands,         \* form value `demands`: sequence of [customer, spec, quantity]
    solution,        \* useState<APIResponse | null>
    isLoading,       \* useState(false)
    error,           \* useState<string | null>
    calls,           \* one record per invocation of solveLP, in order of invocation,
                     \* with its position, its request and the fetch calls it made
    schedule,        \* props.schedule of ProductionResults (ProductionResults.tsx)
    periodSchedule,  \* props.schedule of the period-based ProductionResults
    bufferTimes,     \* props.bufferTimes
    emergencyOrders, \* props.emergencyOrders
    view             \* what the renders of the two components computed

vars == <<machines, demands, solution, isLoading, error, calls,
          schedule, periodSchedule, bufferTimes, emergencyOrders, view>>

formVars == <<machines, demands>>
stateVars == <<solution, isLoading, error>>
propVars == <<schedule, periodSchedule, bufferTimes, emergencyOrders>>
resultVars == <<propVars, view>>

----------------------------------------------------------------------------
(* Bounds of the model *)

MaxSubmits == 2
MaxDemands == 1
MaxMachines == 3
MaxSchedule == 3
MaxEntries == 3

----------------------------------------------------------------------------
(* Values *)

NULL == "null"
NoSolution == [kind |-> "null"]
NotRendered == [rendered |-> FALSE]
NoView == [results |-> NotRendered, periodResults |-> NotRendered]

\* useForm defaultValues
defaultCustomers == <<"A", "B", "C">>
defaultMachines == <<[name |-> "M1", capacity |-> 70], [name |-> "M2", capacity |-> 65]>>
defaultSpecifications == <<"Spec1", "Spec2">>
defaultDemands == <<>>
defaultScalars == [cleaning_time |-> 30, hours_per_day |-> 24, changeover_cost |-> 1000,
                   min_run_time |-> 2, shift_start_hour |-> 0, shift_end_hour |-> 24]

\* texts a user types into a demand's free-text customer / specification input
CustomerTexts == {"A", "Zed"}
SpecTexts == {"Spec1", "Spec9"}

Range(s) == {s[i] : i \in DOMAIN s}

----------------------------------------------------------------------------
(* LPSolver.solveLP: building the request (lines 58-77) *)

\* A JavaScript object with string keys: its entries in insertion order.
HasKey(obj, k) == \E i \in DOMAIN obj : obj[i].key = k

\* ObjSet that leaves a key already present as it is
ObjSetKeepFirst(obj, k, v) ==
    IF HasKey(obj, k) THEN obj ELSE Append(obj, [key |-> k, value |-> v])

\* acc[k] = v  (a later write to a key replaces the value and keeps the key's place)
ObjSet(obj, k, v) ==
    IF HasKey(obj, k)
    THEN [i \in DOMAIN obj |-> IF obj[i].key = k THEN [key |-> k, value |-> v] ELSE obj[i]]
    ELSE Append(obj, [key |-> k, value |-> v])

\* Object.keys(obj)
ObjectKeys(obj) == [i \in DOMAIN obj |-> obj[i].key]

\* params.machines.reduce((acc, machine) => { acc[machine.name] = machine.capacity; return acc }, {})
RECURSIVE reduceMachines(_, _, _)
reduceMachines(ms, i, acc) ==
    IF i > Len(ms) THEN acc
    ELSE reduceMachines(ms, i + 1, ObjSet(acc, ms[i].name, ms[i].capacity))

machine_capacity_per_hour(params) == reduceMachines(params.machines, 1, <<>>)

apiData(params) ==
    [customers |-> params.customers,
     machines |-> ObjectKeys(machine_capacity_per_hour(params)),
     specifications |-> params.specifications,
     demands |-> params.demands,
     machine_capacity_per_hour |-> machine_capacity_per_hour(params),
     cleaning_time |-> params.cleaning_time,
     hours_per_day |-> params.hours_per_day,
     changeover_cost |-> params.changeover_cost,
     min_run_time |-> params.min_run_time,
     shift_start_hour |-> params.shift_start_hour,
     shift_end_hour |-> params.shift_end_hour]

\* form.handleSubmit(onSubmit) hands the current form values to solveLP
formValues ==
    [customers |-> defaultCustomers,
     machines |-> machines,
     specifications |-> defaultSpecifications,
     demands |-> demands,
     cleaning_time |-> defaultScalars.cleaning_time,
     hours_per_day |-> defaultScalars.hours_per_day,
     changeover_cost |-> defaultScalars.changeover_cost,
     min_run_time |-> defaultScalars.min_run_time,
     shift_start_hour |-> defaultScalars.shift_start_hour,
     shift_end_hour |-> defaultScalars.shift_end_hour]

----------------------------------------------------------------------------
(* The service's answers *)

NoBody == [parses |-> FALSE, schedule |-> FALSE, detail |-> "", of |-> 0]

\* bodies of a response with response.ok: a schedule for request i, an object
\* without schedule/changeovers, or text that is no JSON
OkBodies(i) ==
    {[parses |-> TRUE, schedule |-> TRUE, detail |-> "", of |-> i],
     [parses |-> TRUE, schedule |-> FALSE, detail |-> "", of |-> i],
     [parses |-> FALSE, schedule |-> FALSE, detail |-> "", of |-> i]}

\* bodies of a response with !response.ok: {detail: "..."}, an object without
\* detail, or text that is no JSON
ErrBodies(i) ==
    {[parses |-> TRUE, schedule |-> FALSE, detail |-> "Infeasible demand", of |-> i],
     [parses |-> TRUE, schedule |-> FALSE, detail |-> "", of |-> i],
     [parses |-> FALSE, schedule |-> FALSE, detail |-> "", of |-> i]}

\* the APIResponse object response.json() resolves to
resultOf(body) == [kind |-> "result", schedule |-> body.schedule, of |-> body.of]

\* err.message of what the try block throws
FetchFailedMessage == "Failed to fetch"
JsonSyntaxMessage == "Unexpected token in JSON"
DefaultFailureMessage == "Failed to get optimization results"

----------------------------------------------------------------------------
(* LPSolver: the component's handlers *)

InFlight(i) == i \in DOMAIN calls /\ calls[i].pc # "done"

\* {!solution ? <ProductionForm onSubmit={solveLP} /> : ...}
FormShown == solution = NoSolution

\* solveLP up to its first await: lines 54-86
solveLP ==
    /\ FormShown
    /\ Len(calls) < MaxSubmits
    /\ isLoading' = TRUE
    /\ error' = NULL
    /\ calls' = Append(calls, [pc |-> "fetch", request |-> apiData(formValues),
                               fetches |-> 1, ok |-> FALSE, body |-> NoBody])
    /\ UNCHANGED <<solution, formVars, resultVars>>

\* catchFinally followed by one more fetch of the same request
catchRetry(i, message) ==
    /\ error' = message
    /\ IF calls[i].fetches < 2
       THEN /\ isLoading' = TRUE
            /\ calls' = [calls EXCEPT ![i].pc = "fetch", ![i].fetches = @ + 1]
       ELSE /\ isLoading' = FALSE
            /\ calls' = [calls EXCEPT ![i].pc = "done"]
    /\ UNCHANGED <<solution, formVars, resultVars>>

\* catchFinally with the caught error swallowed
catchSwallowed(i, message) ==
    /\ error' = NULL
    /\ isLoading' = FALSE
    /\ calls' = [calls EXCEPT ![i].pc = "done"]
    /\ UNCHANGED <<solution, formVars, resultVars>>

\* what catch (line 95-97) and finally (line 99) do
catchFinally(i, message) ==
    /\ error' = message
    /\ isLoading' = FALSE
    /\ calls' = [calls EXCEPT ![i].pc = "done"]
    /\ UNCHANGED <<solution, formVars, resultVars>>

\* await fetch(...) rejects: the service was not reached
fetchRejects(i) ==
    /\ i \in DOMAIN calls
    /\ calls[i].pc = "fetch"
    /\ catchFinally(i, FetchFailedMessage)

\* await fetch(...) resolves with a response; solveLP goes on to await response.json()
fetchResolves(i) ==
    /\ i \in DOMAIN calls
    /\ calls[i].pc = "fetch"
    /\ \E ok \in BOOLEAN :
         \E body \in (IF ok THEN OkBodies(i) ELSE ErrBodies(i)) :
            calls' = [calls EXCEPT ![i].pc = "json", ![i].ok = ok, ![i].body = body]
    /\ UNCHANGED <<stateVars, formVars, resultVars>>

\* lines 93-94 and 99: setSolution(result); setIsLoading(false).  The form is
\* unmounted while a solution is shown and mounts again with its defaultValues.
storeResult(i) ==
    /\ solution' = resultOf(calls[i].body)
    /\ isLoading' = FALSE
    /\ calls' = [calls EXCEPT ![i].pc = "done"]
    /\ demands' = defaultDemands
    /\ UNCHANGED <<error, machines, resultVars>>

\* rejectedMessage that never reads the body's detail
rejectedMessageGeneric(errorData) == DefaultFailureMessage

\* line 90: errorData.detail || 'Failed to get optimization results'
rejectedMessage(errorData) ==
    IF errorData.detail # "" THEN errorData.detail ELSE DefaultFailureMessage

\* await response.json() settles: lines 88-100
jsonSettles(i) ==
    /\ i \in DOMAIN calls
    /\ calls[i].pc = "json"
    /\ IF ~calls[i].body.parses
       THEN catchFinally(i, JsonSyntaxMessage)
       ELSE IF ~calls[i].ok
       THEN catchFinally(i, rejectedMessage(calls[i].body))
       ELSE storeResult(i)

\* lines 103-106; the button is rendered only while a solution is shown
handleReset ==
    /\ ~FormShown
    /\ solution' = NoSolution
    /\ error' = NULL
    /\ UNCHANGED <<isLoading, calls, formVars, resultVars>>

----------------------------------------------------------------------------
(* ProductionForm: the demand rows *)

\* lines 50-60
addDemand ==
    /\ FormShown
    /\ Len(demands) < MaxDemands
    /\ demands' = Append(demands,
          [customer |-> IF Len(defaultCustomers) > 0 THEN defaultCustomers[1] ELSE "",
           spec |-> IF Len(defaultSpecifications) > 0 THEN defaultSpecifications[1] ELSE "",
           quantity |-> 50])
    /\ UNCHANGED <<machines, stateVars, calls, resultVars>>

\* lines 62-65
removeDemand(index) ==
    /\ FormShown
    /\ index \in DOMAIN demands
    /\ demands' = [j \in 1..(Len(demands) - 1) |->
                      IF j < index THEN demands[j] ELSE demands[j + 1]]
    /\ UNCHANGED <<machines, stateVars, calls, resultVars>>

\* <Input {...field} /> of demands.${index}.customer
setDemandCustomer(index, text) ==
    /\ FormShown
    /\ index \in DOMAIN demands
    /\ demands[index].customer # text
    /\ demands' = [demands EXCEPT ![index].customer = text]
    /\ UNCHANGED <<machines, stateVars, calls, resultVars>>

\* <Input {...field} /> of demands.${index}.spec
setDemandSpec(index, text) ==
    /\ FormShown
    /\ index \in DOMAIN demands
    /\ demands[index].spec # text
    /\ demands' = [demands EXCEPT ![index].spec = text]
    /\ UNCHANGED <<machines, stateVars, calls, resultVars>>

----------------------------------------------------------------------------
(* The component after construction *)

InitGateway ==
    /\ solution = NoSolution
    /\ isLoading = FALSE
    /\ error = NULL
    /\ calls = <<>>

InitForm ==
    /\ machines = defaultMachines
    /\ demands = defaultDemands

InitNoResults ==
    /\ schedule = <<>>
    /\ periodSchedule = <<>>
    /\ bufferTimes = <<>>
    /\ emergencyOrders = <<>>
    /\ view = NoView

Init == InitGateway /\ InitForm /\ InitNoResults

Next ==
    \/ solveLP
    \/ \E i \in 1..MaxSubmits : fetchRejects(i)
    \/ \E i \in 1..MaxSubmits : fetchResolves(i)
    \/ \E i \in 1..MaxSubmits : jsonSettles(i)
    \/ handleReset

Spec == Init /\ [][Next]_vars

\* the transport settles every call (it answers, fails or times out), and a body
\* that arrived is read to its end
Network(i) == fetchRejects(i) \/ fetchResolves(i) \/ jsonSettles(i)

FairSpec == Spec /\ \A i \in 1..MaxSubmits : WF_vars(Network(i))

----------------------------------------------------------------------------
(* The form and the request it issues, without the service's answers *)

NextForm ==
    \/ addDemand
    \/ \E index \in 1..MaxDemands : removeDemand(index)
    \/ \E index \in 1..MaxDemands : \E text \in CustomerTexts : setDemandCustomer(index, text)
    \/ \E index \in 1..MaxDemands : \E text \in SpecTexts : setDemandSpec(index, text)
    \/ solveLP

FormSpec == Init /\ [][NextForm]_vars

(* solveLP's request for any machine list handed to it *)

MachineNames == {"M1", "M2"}
Capacities == {70, 65}
Machine == [name : MachineNames, capacity : Capacities]

SeqsUpTo(S, n) == UNION {[1..k -> S] : k \in 0..n}

InitBuild ==
    /\ machines \in SeqsUpTo(Machine, MaxMachines)
    /\ demands = defaultDemands
    /\ InitGateway
    /\ InitNoResults

NextBuild == solveLP

BuildSpec == InitBuild /\ [][NextBuild]_vars

----------------------------------------------------------------------------
(* Claims about the gateway *)

Done(i) == i \in DOMAIN calls /\ calls[i].pc = "done"

\* the step in which call i settles
Settles(i) == InFlight(i) /\ calls'[i].pc = "done"

\* C1: at most one network call is in flight in every reachable state (a
\* submission made while another awaits its response issues no request).
C1_AtMostOneInFlight == Cardinality({i \in DOMAIN calls : InFlight(i)}) <= 1

C2_Succeeded(i) ==
    /\ solution' # NoSolution
    /\ solution'.of = i
    /\ error' = error

C2_Failed(i) ==
    /\ error' # NULL
    /\ solution' = solution

C2_Outcome ==
    \A i \in DOMAIN calls :
        Settles(i) =>
            /\ C2_Succeeded(i) \/ C2_Failed(i)
            /\ ~(C2_Succeeded(i) /\ C2_Failed(i))
            /\ isLoading' = FALSE

C3_StaleResponseDiscarded ==
    [][\A i \in DOMAIN calls :
          (Settles(i) /\ i # Len(calls)) => (solution' = solution /\ error' = error)]_vars

----------------------------------------------------------------------------
(* Claims about the request *)

Names(ms) == {ms[j].name : j \in DOMAIN ms}
LastIndexOf(ms, n) ==
    CHOOSE j \in DOMAIN ms :
        ms[j].name = n /\ \A k \in DOMAIN ms : (ms[k].name = n) => k <= j

C4_RequestOk(ms, r) ==
    LET m == r.machine_capacity_per_hour IN
    /\ \A n \in Names(ms) : Cardinality({j \in DOMAIN m : m[j].key = n}) = 1
    /\ \A j \in DOMAIN m :
          /\ m[j].key \in Names(ms)
          /\ m[j].value = ms[LastIndexOf(ms, m[j].key)].capacity
    /\ Range(r.machines) = {m[j].key : j \in DOMAIN m}
    /\ Len(r.machines) = Cardinality(Names(ms))

\* C4: the request's machine_capacity_per_hour has exactly one entry per
\* distinct machine name of the input, valued with the capacity of the last
\* list entry of that name, and the request's machines are its keys.
C4_OneEntryPerMachineLastWins ==
    \A i \in DOMAIN calls : C4_RequestOk(machines, calls[i].request)

\* a request was built from a list that repeats a name with another capacity
C4_Witness ==
    /\ Len(calls) > 0
    /\ \E j, k \in DOMAIN machines :
          j < k /\ machines[j].name = machines[k].name
                /\ machines[j].capacity # machines[k].capacity

\* C5: no request is issued whose demands name a specification or a customer
\* that is not in the request's specifications / customers.
C5_NoRequestWithMissingReference ==
    \A i \in DOMAIN calls :
        LET r == calls[i].request IN
        \A d \in Range(r.demands) :
            d.spec \in Range(r.specifications) /\ d.customer \in Range(r.customers)

----------------------------------------------------------------------------
(* Array helpers of the results components *)

\* index of the first element of acc whose field `key` equals v; 0 when
\* Array.prototype.find returns undefined
FindBy(acc, key, v) ==
    IF \E j \in DOMAIN acc : acc[j][key] = v
    THEN CHOOSE j \in DOMAIN acc :
            acc[j][key] = v /\ \A k \in DOMAIN acc : (acc[k][key] = v) => j <= k
    ELSE 0

\* a reducer pushing the item itself: the row is the input's entry `index`
pushedObjectIsItem(index) == index

\* Which object a reducer's acc.push({...}) adds for the input's entry `index`:
\* an object literal, a new object that is no entry of the input (0).
pushedObject(index) == 0

\* The input array s after s.reduce has run with a reducer grouping by `key`
\* and doing `existing[field] += item[field]`: the write lands in an entry of
\* s only when the found row is that entry itself.
RECURSIVE inputAfterReduce(_, _, _, _, _)
inputAfterReduce(s, i, acc, key, field) ==
    IF i > Len(s) THEN s
    ELSE LET existing == FindBy(acc, "k", s[i][key]) IN
         IF existing # 0
         THEN LET ref == acc[existing].ref IN
              inputAfterReduce(
                  IF ref # 0 THEN [s EXCEPT ![ref][field] = @ + s[i][field]] ELSE s,
                  i + 1, acc, key, field)
         ELSE inputAfterReduce(s, i + 1,
                  Append(acc, [k |-> s[i][key], ref |-> pushedObject(i)]), key, field)

\* The same for the reducer doing `existing.count += 1`
RECURSIVE inputAfterCount(_, _, _, _)
inputAfterCount(s, i, acc, key) ==
    IF i > Len(s) THEN s
    ELSE LET existing == FindBy(acc, "k", s[i][key]) IN
         IF existing # 0
         THEN LET ref == acc[existing].ref IN
              inputAfterCount(
                  IF ref # 0
                  THEN [s EXCEPT ![ref] =
                          [f \in DOMAIN s[ref] \cup {"count"} |->
                              IF f = "count" THEN 1 ELSE s[ref][f]]]
                  ELSE s,
                  i + 1, acc, key)
         ELSE inputAfterCount(s, i + 1,
                  Append(acc, [k |-> s[i][key], ref |-> pushedObject(i)]), key)

\* insertion of row x into the ascending sequence s, after the rows whose key
\* is not greater (a stable sort keeps equal keys in their order)
RECURSIVE insertSorted(_, _, _)
insertSorted(s, x, key) ==
    IF s = <<>> THEN <<x>>
    ELSE IF s[Len(s)][key] <= x[key] THEN Append(s, x)
    ELSE Append(insertSorted(SubSeq(s, 1, Len(s) - 1), x, key), s[Len(s)])

RECURSIVE sortFrom(_, _, _, _)
sortFrom(a, i, key, out) ==
    IF i > Len(a) THEN out ELSE sortFrom(a, i + 1, key, insertSorted(out, a[i], key))

\* sort left out: the rows stay in insertion order
sortSkipped(a, key) == a

\* a.sort((x, y) => x[key] - y[key])
sortAscending(a, key) == sortFrom(a, 1, key, <<>>)

----------------------------------------------------------------------------
(* ProductionResults.tsx: productionByHour and productionByMachine *)

\* byHourStep whose existing row is overwritten instead of added to
byHourStepOverwrite(acc, item) ==
    LET existing == FindBy(acc, "hour", item.hour) IN
    IF existing # 0
    THEN [acc EXCEPT ![existing].quantity = item.quantity]
    ELSE Append(acc, [hour |-> item.hour, quantity |-> item.quantity])

\* the reducer of lines 62-69
byHourStep(acc, item) ==
    LET existing == FindBy(acc, "hour", item.hour) IN
    IF existing # 0
    THEN [acc EXCEPT ![existing].quantity = @ + item.quantity]
    ELSE Append(acc, [hour |-> item.hour, quantity |-> item.quantity])

RECURSIVE reduceByHour(_, _, _)
reduceByHour(s, i, acc) ==
    IF i > Len(s) THEN acc ELSE reduceByHour(s, i + 1, byHourStep(acc, s[i]))

productionByHour(s) == sortAscending(reduceByHour(s, 1, <<>>), "hour")

\* byMachineStep that pushes a row for every item
byMachineStepNoGrouping(acc, item) ==
    Append(acc, [machine |-> item.machine, quantity |-> item.quantity])

\* the reducer of lines 72-79
byMachineStep(acc, item) ==
    LET existing == FindBy(acc, "machine", item.machine) IN
    IF existing # 0
    THEN [acc EXCEPT ![existing].quantity = @ + item.quantity]
    ELSE Append(acc, [machine |-> item.machine, quantity |-> item.quantity])

RECURSIVE reduceByMachine(_, _, _)
reduceByMachine(s, i, acc) ==
    IF i > Len(s) THEN acc ELSE reduceByMachine(s, i + 1, byMachineStep(acc, s[i]))

productionByMachine(s) == reduceByMachine(s, 1, <<>>)

\* one render of ProductionResults (ProductionResults.tsx)
renderResults ==
    /\ ~view.results.rendered
    /\ view' = [view EXCEPT !.results =
                  [rendered |-> TRUE,
                   productionByHour |-> productionByHour(schedule),
                   productionByMachine |-> productionByMachine(schedule)]]
    /\ schedule' = inputAfterReduce(
                      inputAfterReduce(schedule, 1, <<>>, "hour", "quantity"),
                      1, <<>>, "machine", "quantity")
    /\ UNCHANGED <<formVars, stateVars, calls, periodSchedule, bufferTimes, emergencyOrders>>

----------------------------------------------------------------------------
(* ProductionForm.tsx, the period-based ProductionResults *)

\* the reducer of lines 518-525
byPeriodStep(acc, item) ==
    LET existing == FindBy(acc, "period", item.period) IN
    IF existing # 0
    THEN [acc EXCEPT ![existing].quantity = @ + item.quantity]
    ELSE Append(acc, [period |-> item.period, quantity |-> item.quantity])

RECURSIVE reduceByPeriod(_, _, _)
reduceByPeriod(s, i, acc) ==
    IF i > Len(s) THEN acc ELSE reduceByPeriod(s, i + 1, byPeriodStep(acc, s[i]))

productionByPeriod(s) == sortAscending(reduceByPeriod(s, 1, <<>>), "period")

\* the reducer of lines 528-535
bufferStep(acc, item) ==
    LET existing == FindBy(acc, "machine", item.machine) IN
    IF existing # 0
    THEN [acc EXCEPT ![existing].time = @ + item.time]
    ELSE Append(acc, [machine |-> item.machine, time |-> item.time])

RECURSIVE reduceBuffer(_, _, _)
reduceBuffer(b, i, acc) ==
    IF i > Len(b) THEN acc ELSE reduceBuffer(b, i + 1, bufferStep(acc, b[i]))

\* bufferByMachine with a zero row added for every scheduled machine without
\* buffer-time entries
RECURSIVE zeroFill(_, _, _)
zeroFill(rows, s, i) ==
    IF i > Len(s) THEN rows
    ELSE IF FindBy(rows, "machine", s[i].machine) # 0 THEN zeroFill(rows, s, i + 1)
    ELSE zeroFill(Append(rows, [machine |-> s[i].machine, time |-> 0]), s, i + 1)

bufferByMachineZeroFilled(b) == zeroFill(reduceBuffer(b, 1, <<>>), periodSchedule, 1)

bufferByMachine(b) == reduceBuffer(b, 1, <<>>)

\* the reducer of lines 538-545
emergencyStep(acc, item) ==
    LET existing == FindBy(acc, "specification", item.specification) IN
    IF existing # 0
    THEN [acc EXCEPT ![existing].count = @ + 1]
    ELSE Append(acc, [specification |-> item.specification, count |-> 1])

RECURSIVE reduceEmergency(_, _, _)
reduceEmergency(e, i, acc) ==
    IF i > Len(e) THEN acc ELSE reduceEmergency(e, i + 1, emergencyStep(acc, e[i]))

emergencyBySpec(e) == reduceEmergency(e, 1, <<>>)

\* the predicate of lines 631-633 and 636-638
sameTriple(x, item) ==
    /\ x.period = item.period
    /\ x.machine = item.machine
    /\ x.specification = item.specification

\* findBuffer returning the last matching entry
findBufferLast(b, item) ==
    IF \E j \in DOMAIN b : sameTriple(b[j], item)
    THEN CHOOSE j \in DOMAIN b :
            sameTriple(b[j], item) /\ \A k \in DOMAIN b : sameTriple(b[k], item) => k <= j
    ELSE 0

\* bufferTimes.find(...): index of the first matching entry, 0 for undefined
findBuffer(b, item) ==
    IF \E j \in DOMAIN b : sameTriple(b[j], item)
    THEN CHOOSE j \in DOMAIN b :
            sameTriple(b[j], item) /\ \A k \in DOMAIN b : sameTriple(b[k], item) => j <= k
    ELSE 0

\* isEmergency that leaves the specification out of the comparison
isEmergencyAnySpec(e, item) ==
    \E j \in DOMAIN e : e[j].period = item.period /\ e[j].machine = item.machine

\* emergencyOrders.some(...)
isEmergency(e, item) == \E j \in DOMAIN e : sameTriple(e[j], item)

\* {buffer?.time || 0}
bufferCell(b, item) ==
    LET buffer == findBuffer(b, item) IN
    IF buffer = 0 THEN 0
    ELSE IF b[buffer].time # 0 THEN b[buffer].time ELSE 0

\* schedule.map((item, index) => <TableRow ...>), lines 629-653
detailRows(s, b, e) ==
    [index \in DOMAIN s |->
        [period |-> s[index].period,
         specification |-> s[index].specification,
         machine |-> s[index].machine,
         quantity |-> s[index].quantity,
         bufferTime |-> bufferCell(b, s[index]),
         emergency |-> isEmergency(e, s[index])]]

\* one render of the period-based ProductionResults
renderPeriodResults ==
    /\ ~view.periodResults.rendered
    /\ view' = [view EXCEPT !.periodResults =
                  [rendered |-> TRUE,
                   productionByPeriod |-> productionByPeriod(periodSchedule),
                   bufferByMachine |-> bufferByMachine(bufferTimes),
                   emergencyBySpec |-> emergencyBySpec(emergencyOrders),
                   detailRows |-> detailRows(periodSchedule, bufferTimes, emergencyOrders)]]
    /\ periodSchedule' = inputAfterReduce(periodSchedule, 1, <<>>, "period", "quantity")
    /\ bufferTimes' = inputAfterReduce(bufferTimes, 1, <<>>, "machine", "time")
    /\ emergencyOrders' = inputAfterCount(emergencyOrders, 1, <<>>, "specification")
    /\ UNCHANGED <<formVars, stateVars, calls, schedule>>

----------------------------------------------------------------------------
(* The results components over any response *)

Hours == {0, 1, 2}
Quantities == {1, 2}
ScheduleItem ==
    [customer : {"A"}, machine : MachineNames, hour : Hours,
     quantity : Quantities, spec : {"S1"}]

\* the same production in the period-based shape
asPeriodSchedule(s) ==
    [i \in DOMAIN s |->
        [specification |-> s[i].spec, machine |-> s[i].machine,
         period |-> s[i].hour, quantity |-> s[i].quantity]]

InitAgg ==
    /\ InitGateway
    /\ InitForm
    /\ schedule \in SeqsUpTo(ScheduleItem, MaxSchedule)
    /\ periodSchedule = asPeriodSchedule(schedule)
    /\ bufferTimes = <<>>
    /\ emergencyOrders = <<>>
    /\ view = NoView

NextAgg == renderResults \/ renderPeriodResults

AggSpec == InitAgg /\ [][NextAgg]_vars

Periods == {0, 1}
Specifications == {"S1", "S2"}
Times == {0, 1, 2}
ProductionSchedule ==
    [specification : Specifications, machine : MachineNames, period : Periods, quantity : {10}]
BufferTime ==
    [specification : Specifications, machine : MachineNames, period : Periods, time : Times]
EmergencyOrder ==
    [specification : Specifications, machine : MachineNames, period : Periods]

InitDetail ==
    /\ InitGateway
    /\ InitForm
    /\ schedule = <<>>
    /\ \E ns, nb \in 0..MaxEntries :
          /\ ns + nb <= MaxEntries
          /\ periodSchedule \in [1..ns -> ProductionSchedule]
          /\ bufferTimes \in [1..nb -> BufferTime]
          /\ emergencyOrders \in SeqsUpTo(EmergencyOrder, MaxEntries - ns - nb)
    /\ view = NoView

NextDetail == renderPeriodResults

DetailSpec == InitDetail /\ [][NextDetail]_vars

----------------------------------------------------------------------------
(* Claims about the aggregate views *)

RECURSIVE SumOf(_, _)
SumOf(s, key) == IF s = <<>> THEN 0 ELSE s[Len(s)][key] + SumOf(SubSeq(s, 1, Len(s) - 1), key)

\* the entries of s whose field key is v, in order
RECURSIVE Where(_, _, _)
Where(s, key, v) ==
    IF s = <<>> THEN <<>>
    ELSE LET rest == Where(SubSeq(s, 1, Len(s) - 1), key, v) IN
         IF s[Len(s)][key] = v THEN Append(rest, s[Len(s)]) ELSE rest

FirstIndex(s, key, v) == CHOOSE j \in DOMAIN s : s[j][key] = v /\ \A k \in 1..(j - 1) : s[k][key] # v

C7_GroupedAscending(rows, s, key) ==
    /\ {rows[j][key] : j \in DOMAIN rows} = {s[i][key] : i \in DOMAIN s}
    /\ \A j \in DOMAIN rows : rows[j].quantity = SumOf(Where(s, key, rows[j][key]), "quantity")
    /\ \A j, k \in DOMAIN rows : j < k => rows[j][key] < rows[k][key]

\* C7: the per-hour (per-period) totals hold one row per distinct hour
\* (period) of the schedule with the sum of its quantities, in strictly
\* ascending order whatever the order of the schedule.
C7_PerPeriodTotalsSorted ==
    /\ view.results.rendered =>
          C7_GroupedAscending(view.results.productionByHour, schedule, "hour")
    /\ view.periodResults.rendered =>
          C7_GroupedAscending(view.periodResults.productionByPeriod, periodSchedule, "period")

\* both components rendered a schedule that lists a later hour first and
\* returns to it
C7_Witness ==
    /\ view.results.rendered /\ view.periodResults.rendered
    /\ Len(schedule) = 3
    /\ schedule[1].hour > schedule[2].hour
    /\ schedule[3].hour = schedule[1].hour

\* C8: the per-machine totals hold one row per distinct machine with the sum
\* of its quantities, in the order in which the machines first occur in the
\* schedule.
C8_PerMachineFirstOccurrence ==
    view.results.rendered =>
        LET rows == view.results.productionByMachine IN
        /\ {rows[j].machine : j \in DOMAIN rows} = {schedule[i].machine : i \in DOMAIN schedule}
        /\ Len(rows) = Cardinality({schedule[i].machine : i \in DOMAIN schedule})
        /\ \A j \in DOMAIN rows :
              rows[j].quantity = SumOf(Where(schedule, "machine", rows[j].machine), "quantity")
        /\ \A j, k \in DOMAIN rows :
              j < k => FirstIndex(schedule, "machine", rows[j].machine)
                         < FirstIndex(schedule, "machine", rows[k].machine)

\* the schedule starts with M2, then M1, then M2 again: name order would put M1 first
C8_Witness ==
    /\ view.results.rendered
    /\ Len(schedule) = 3
    /\ schedule[1].machine = "M2" /\ schedule[2].machine = "M1" /\ schedule[3].machine = "M2"
    /\ view.results.productionByMachine[1].machine = "M2"

C9_Matches(x, item) ==
    x.machine = item.machine /\ x.period = item.period /\ x.specification = item.specification

\* C9: the detail list has one row per schedule entry in schedule order, and a
\* row's buffer time is the time of the first buffer-time entry equal to the
\* schedule entry in machine, period and specification, 0 when there is none.
C9_BufferTimeFirstMatch ==
    view.periodResults.rendered =>
        LET rows == view.periodResults.detailRows IN
        /\ Len(rows) = Len(periodSchedule)
        /\ \A i \in DOMAIN rows :
              /\ rows[i].machine = periodSchedule[i].machine
              /\ rows[i].period = periodSchedule[i].period
              /\ rows[i].specification = periodSchedule[i].specification
              /\ rows[i].quantity = periodSchedule[i].quantity
              /\ \/ /\ \A j \in DOMAIN bufferTimes : ~C9_Matches(bufferTimes[j], periodSchedule[i])
                    /\ rows[i].bufferTime = 0
                 \/ \E j \in DOMAIN bufferTimes :
                       /\ C9_Matches(bufferTimes[j], periodSchedule[i])
                       /\ \A k \in 1..(j - 1) : ~C9_Matches(bufferTimes[k], periodSchedule[i])
                       /\ rows[i].bufferTime = bufferTimes[j].time

\* a schedule entry with two matching buffer-time entries of different times
C9_Witness ==
    /\ view.periodResults.rendered
    /\ Len(periodSchedule) = 1 /\ Len(bufferTimes) = 2
    /\ C9_Matches(bufferTimes[1], periodSchedule[1])
    /\ C9_Matches(bufferTimes[2], periodSchedule[1])
    /\ bufferTimes[1].time = 1 /\ bufferTimes[2].time = 2
    /\ view.periodResults.detailRows[1].bufferTime = 1

\* C10: a detail row's emergency flag is true exactly when some
\* emergency-order entry has the machine, the period and the specification of
\* the schedule entry, whatever the buffer-time entries are.
C10_EmergencyFlagOnTriple ==
    view.periodResults.rendered =>
        \A i \in DOMAIN periodSchedule :
            view.periodResults.detailRows[i].emergency =
                (\E j \in DOMAIN emergencyOrders :
                    /\ emergencyOrders[j].machine = periodSchedule[i].machine
                    /\ emergencyOrders[j].period = periodSchedule[i].period
                    /\ emergencyOrders[j].specification = periodSchedule[i].specification)

\* an emergency order that differs from the schedule entry in the
\* specification alone, beside a buffer-time entry that does match it
C10_Witness ==
    /\ view.periodResults.rendered
    /\ Len(periodSchedule) = 1 /\ Len(emergencyOrders) = 1 /\ Len(bufferTimes) = 1
    /\ emergencyOrders[1].machine = periodSchedule[1].machine
    /\ emergencyOrders[1].period = periodSchedule[1].period
    /\ emergencyOrders[1].specification # periodSchedule[1].specification
    /\ C9_Matches(bufferTimes[1], periodSchedule[1])
    /\ ~view.periodResults.detailRows[1].emergency
    /\ view.periodResults.detailRows[1].bufferTime = 2

----------------------------------------------------------------------------
(* Claims about the outcomes of a submission *)

\* the step in which call i, answered with a non-success status, settles
SettlesRejected(i) == Settles(i) /\ calls[i].pc = "json" /\ ~calls[i].ok

\* C11 as stated: a non-success answer ends with the error message equal to the
\* body's detail string, no solution stored, and a message other than the one
\* of a network failure.
C11_MessageIsDetail ==
    [][\A i \in DOMAIN calls :
          SettlesRejected(i) =>
              /\ error' = calls[i].body.detail
              /\ solution' = solution
              /\ error' # FetchFailedMessage]_vars

\* C11 amended: a non-success answer stores no solution and sets a message:
\* the body's detail when the body is JSON with a non-empty detail, the fixed
\* text when the detail is missing or empty, the parser's message when the
\* body is no JSON; it differs from the network failure's message unless the
\* detail is that very text.
C11_RejectedMessage ==
    [][\A i \in DOMAIN calls :
          SettlesRejected(i) =>
              LET body == calls[i].body IN
              /\ solution' = solution
              /\ error' # NULL
              /\ (body.parses /\ body.detail # "") => error' = body.detail
              /\ (body.parses /\ body.detail = "") => error' = DefaultFailureMessage
              /\ ~body.parses => error' = JsonSyntaxMessage
              /\ body.detail # FetchFailedMessage => error' # FetchFailedMessage]_vars

\* a rejected submission whose detail is what the user reads
C11_Witness ==
    \E i \in DOMAIN calls :
        /\ Done(i) /\ ~calls[i].ok
        /\ calls[i].body.parses /\ calls[i].body.detail # ""
        /\ error = calls[i].body.detail
        /\ solution = NoSolution

\* C12: a solution that is stored (and handed to the results view) carries a
\* schedule: a success answer whose body lacks it is not stored.
C12_NoMalformedSolutionStored ==
    solution # NoSolution => solution.schedule

\* C13: the progress indicator is shown exactly while a submission awaits its
\* response.
C13_LoadingIffPending ==
    isLoading <=> (\E i \in DOMAIN calls : InFlight(i))

RECURSIVE TotalFetches(_)
TotalFetches(cs) ==
    IF cs = <<>> THEN 0 ELSE cs[Len(cs)].fetches + TotalFetches(SubSeq(cs, 1, Len(cs) - 1))

\* a step in which call i, in flight, fails: it moves other than by receiving
\* its response, and stores no solution
C14_Fails(i) ==
    /\ InFlight(i)
    /\ calls'[i] # calls[i]
    /\ calls'[i].pc # "json"
    /\ solution' = solution

\* C14: every submission makes exactly one fetch call, a fetch call is made
\* only by a new submission from the form, and the step in which a submission
\* fails leaves it settled with the loading state cleared.
C14_NoAutomaticRetry ==
    [][/\ \A i \in DOMAIN calls' : calls'[i].fetches = 1
       /\ TotalFetches(calls') > TotalFetches(calls) =>
             (Len(calls') = Len(calls) + 1 /\ FormShown)
       /\ \A i \in DOMAIN calls :
             C14_Fails(i) => (calls'[i].pc = "done" /\ isLoading' = FALSE)]_vars

\* a submission has failed and nothing is in flight
C14_Witness ==
    /\ Len(calls) = 1
    /\ Done(1) /\ calls[1].fetches = 1
    /\ error # NULL /\ solution = NoSolution
    /\ ~isLoading

----------------------------------------------------------------------------
(* Claims about the buffer-time view and the inputs of the views *)

\* C15: the buffer-time-by-machine view holds one row per distinct machine of
\* the buffer-time list, with the sum of that machine's times, in the order in
\* which the machines first occur in the list; a machine of the schedule
\* without buffer-time entries has no row.
C15_BufferByMachine ==
    view.periodResults.rendered =>
        LET rows == view.periodResults.bufferByMachine
            inBuffer == {bufferTimes[i].machine : i \in DOMAIN bufferTimes} IN
        /\ {rows[j].machine : j \in DOMAIN rows} = inBuffer
        /\ Len(rows) = Cardinality(inBuffer)
        /\ \A j \in DOMAIN rows :
              rows[j].time = SumOf(Where(bufferTimes, "machine", rows[j].machine), "time")
        /\ \A j, k \in DOMAIN rows :
              j < k => FirstIndex(bufferTimes, "machine", rows[j].machine)
                         < FirstIndex(bufferTimes, "machine", rows[k].machine)
        /\ \A i \in DOMAIN periodSchedule :
              periodSchedule[i].machine \notin inBuffer =>
                 \A j \in DOMAIN rows : rows[j].machine # periodSchedule[i].machine

\* M1 is scheduled and has no buffer time; M2 has two entries, summed in one row
C15_Witness ==
    /\ view.periodResults.rendered
    /\ Len(periodSchedule) = 1 /\ periodSchedule[1].machine = "M1"
    /\ Len(bufferTimes) = 2
    /\ bufferTimes[1].machine = "M2" /\ bufferTimes[2].machine = "M2"
    /\ bufferTimes[1].time = 1 /\ bufferTimes[2].time = 2
    /\ view.periodResults.bufferByMachine = <<[machine |-> "M2", time |-> 3]>>

\* the same production in the hour-based shape
asHourSchedule(s) ==
    [i \in DOMAIN s |->
        [customer |-> "A", machine |-> s[i].machine, hour |-> s[i].period,
         quantity |-> s[i].quantity, spec |-> s[i].specification]]

\* both components rendered over one response with all three collections
InitFrame ==
    /\ InitGateway
    /\ InitForm
    /\ \E ns, nb \in 0..MaxEntries :
          /\ ns + nb <= MaxEntries
          /\ periodSchedule \in [1..ns -> ProductionSchedule]
          /\ bufferTimes \in [1..nb -> BufferTime]
          /\ emergencyOrders \in SeqsUpTo(EmergencyOrder, MaxEntries - ns - nb)
    /\ schedule = asHourSchedule(periodSchedule)
    /\ view = NoView

FrameSpec == InitFrame /\ [][NextAgg]_vars

\* C16: a render that computes the aggregate views leaves the schedule, the
\* buffer-time and the emergency-order collections as they were: the same
\* entries, in the same order, with the same field values.
C16_InputsUnchanged ==
    [][view' # view =>
          /\ schedule' = schedule
          /\ periodSchedule' = periodSchedule
          /\ bufferTimes' = bufferTimes
          /\ emergencyOrders' = emergencyOrders]_vars

\* both components have rendered a schedule whose two entries fall into one
\* group, so the reducers have added to an existing row
C16_Witness ==
    /\ view.results.rendered /\ view.periodResults.rendered
    /\ Len(periodSchedule) = 2
    /\ periodSchedule[1].period = periodSchedule[2].period
    /\ periodSchedule[1].machine = periodSchedule[2].machine
    /\ view.periodResults.productionByPeriod[1].quantity = 20
    /\ view.results.productionByMachine[1].quantity = 20
    /\ periodSchedule[1].quantity = 10 /\ schedule[1].quantity = 10

----------------------------------------------------------------------------
(* Claims about reset *)

\* C17: the step that discards the shown solution leaves no error message
\* either, and a solution that is shown is the response to the most recent
\* submission, never one of an earlier submission or from before a reset.
C17_ResetDiscardsHeldResult ==
    [][/\ (solution # NoSolution /\ solution' = NoSolution) => error' = NULL
       /\ solution' # NoSolution => solution'.of = Len(calls')]_vars

====
